---- MODULE Spec2Model ----
(***************************************************************************)
(* SmartParkingSystem, mobile client: the parking screen (ParkingScreen,   *)
(* src/unnamed/part_003 lines 1-527) and the search screen that opens it   *)
(* (src/SmartParkingMobile/screens/SearchScreen.js).                       *)
(*                                                                         *)
(* Times are carried in seconds: the code's total_minutes                  *)
(* A = minutesToNextQuarter + drivingTime / 60 is held as A * 60, so that  *)
(* the fraction of drivingTime / 60 is kept; 15 minutes are 900 seconds    *)
(* and 7.5 minutes are 450 seconds.                                        *)
(***************************************************************************)
EXTENDS Integers, Sequences, FiniteSets, TLC

(***************************************************************************)
(* JavaScript values.  A number n is [num |-> n], a string s [str |-> s];  *)
(* undefined, null and NaN are values of their own.                        *)
(***************************************************************************)
Num(n) == [num |-> n]
Str(s) == [str |-> s]
Undefined == [undef |-> TRUE]
Null == [null |-> TRUE]
NaN == [nan |-> TRUE]
Thrown == [thrown |-> TRUE]
IsNum(v) == DOMAIN v = {"num"}
IsStr(v) == DOMAIN v = {"str"}

(***************************************************************************)
(* Bounds of the model.                                                    *)
(***************************************************************************)
\* driving times 0..MaxDrivingTime seconds are tried second by second
MaxDrivingTime == 960
\* and beyond that, every multiple of 7.5 minutes and the second after it
MaxHalfSteps == 245
\* at most MaxPlaces places lie around a destination
MaxPlaces == 2
\* a text search returns at most MaxResults places
MaxResults == 2
\* at most MaxInFlight text searches are unanswered at a time
MaxInFlight == 2
\* forecast requests one run follows
MaxRequests == 2
\* ingestion cycles one run follows
MaxCycles == 2
\* the largest count a client asks of POST /parkinglot
MaxCount == 2
\* the longest array handed to sortParkings on its own
MaxSortLen == 3
\* the largest live count a Marker on its own is rendered for
MaxLots == 12

(***************************************************************************)
(* Program constants.                                                      *)
(***************************************************************************)
QuarterMinutes == 15
QuarterSec == 900
HalfQuarterSec == 450
ClampLimit == 120
ClampIndex == 8
MinuteSec == 60
LastMinute == 59
RealTimeLimit == 300
RadiusStart == 1000
RequestRadius == 1000
RadiusStep == 1000
RadiusLimit == 10000

VARIABLES
  \* the slot arithmetic on its own
  slotMinute,     \* now.getMinutes() of the mount effect
  slotDriving,    \* drivingTime, seconds
  slotOffset,     \* minutesRemaining of the mount effect, or Undefined
  slotResult,     \* returnDataPoint = calculateX(...), or Undefined, or Thrown
  \* the parking screen
  earlyRefThrows,       \* whether the bundle throws at lines 201-202 (see BuildChoices)
  currentMinute,        \* now.getMinutes() when the screen mounts
  screenPc,             \* "rendered", "mountDone", "mounted"
  minutesToNextQuarter, \* useState(0)
  renderMinutes,        \* minutesToNextQuarter as the committed render saw it
  closureMinutes,       \* minutesToNextQuarter inside the fetch effect's closures
  sortOption,           \* useState('distance')
  closureSortOption,    \* sortOption inside the fetch effect's sortParkings
  sortEffectPending,    \* the [sortOption] effect is scheduled
  parkings,             \* useState([])
  originalParkings,     \* useState([])
  loading,              \* useState(true)
  locationLoading,      \* useState(true)
  fetchPc,              \* where fetchWithRadius stands
  currentRadius,        \* fetchWithRadius's argument
  requestedRadius,      \* params.radius of the nearby search in flight
  placesAround,         \* the places around the destination, as Google ranks them
  nearbyResults,        \* response.data.results of the running attempt
  routeParams,          \* route.params: destination and currentLocation
  chains,               \* the per-lot async callbacks handed to Promise.all
  \* the search screen
  deviceLocation,         \* where the device is
  permissionStatus,       \* "asking", or the status requestForegroundPermissionsAsync gave
  searchLocationLoading,  \* SearchScreen's locationLoading
  region,                 \* SearchScreen's region
  places,                 \* useState([])
  searchLoading,          \* SearchScreen's loading
  searchesInFlight,       \* text searches sent and not yet answered
  selectedPlace,          \* useState(null)
  \* the backend: Availability Repository, Artifact Store, Forecast Service
  catalog,          \* the lot catalog of the Availability Repository
  readings,         \* the stored OccupancyReadings of each lot, oldest first
  nextStamp,        \* the timestamp of the next ingestion cycle
  modelCache,       \* the process-wide cache of loaded artifacts
  requests,         \* the forecast requests, in the order they arrived
  returnedIds,      \* the lot identifiers get_availability has returned so far
  lastAvailability, \* the last answer of POST /parkinglot
  \* sortParkings on its own
  sortData,         \* the array handed to sortParkings
  sortChoice,       \* sortOption at the call, or Undefined before it
  sortReturn,       \* what the call returned and left of its argument, or Undefined
  \* one marker of the map on its own
  markerParking,    \* the lot the Marker is rendered for
  markerColor       \* its pinColor, or Undefined before the render

slotVars == <<slotMinute, slotDriving, slotOffset, slotResult>>
screenVars == <<earlyRefThrows, currentMinute, screenPc, minutesToNextQuarter,
                renderMinutes, closureMinutes, sortOption, closureSortOption,
                sortEffectPending, parkings, originalParkings, loading,
                locationLoading, fetchPc, currentRadius, requestedRadius,
                placesAround, nearbyResults, routeParams, chains>>
searchVars == <<deviceLocation, permissionStatus, searchLocationLoading, region,
                places, searchLoading, searchesInFlight, selectedPlace>>
backendVars == <<catalog, readings, nextStamp, modelCache, requests, returnedIds,
                 lastAvailability>>
sortVars == <<sortData, sortChoice, sortReturn>>
markerVars == <<markerParking, markerColor>>
clientVars == <<markerVars, sortVars, slotVars, screenVars, searchVars>>
vars == <<slotVars, screenVars, searchVars, backendVars, sortVars, markerVars>>

(***************************************************************************)
(* Mount effect: minutes to the next quarter of the hour.                  *)
(***************************************************************************)
\* Math.ceil(m / 15)
CeilQuarter(m) ==
  IF m % QuarterMinutes = 0 THEN m \div QuarterMinutes ELSE (m \div QuarterMinutes) + 1

\* a plausible slip: Math.floor(m / 15) + 1
MinutesRemainingFloorPlusOne(m) ==
  ((m \div QuarterMinutes) + 1) * QuarterMinutes - m

\* nextQuarterMinute - currentMinute
MinutesRemaining(m) ==
  CeilQuarter(m) * QuarterMinutes - m

(***************************************************************************)
(* calculateX(A), A in seconds.  X is declared const: the assignment X = 8 *)
(* of the clamp branch throws a TypeError, which fetchPrediction's catch   *)
(* swallows.  A NaN argument gives NaN (NaN <= 7.5 is false, NaN > 120 is  *)
(* false).                                                                 *)
(***************************************************************************)
\* a plausible slip: remainder < 7.5 in place of remainder <= 7.5
calculateXStrictTie(A) ==
  IF ~IsNum(A) THEN NaN
  ELSE LET quotient == A.num \div QuarterSec
           remainder == A.num % QuarterSec
           extra == IF remainder < HalfQuarterSec THEN 0 ELSE 1
           X == quotient + extra
       IN IF X > ClampLimit THEN Thrown ELSE Num(X)

calculateX(A) ==
  IF ~IsNum(A) THEN NaN
  ELSE LET quotient == A.num \div QuarterSec
           remainder == A.num % QuarterSec
           extra == IF remainder <= HalfQuarterSec THEN 0 ELSE 1
           X == quotient + extra
       IN IF X > ClampLimit THEN Thrown ELSE Num(X)

\* minutesToNextQuarter + drivingTime / 60, in seconds; NaN when the
\* driving time is not a number
TotalMinutes(offset, drivingTime) ==
  IF IsNum(drivingTime) THEN Num(offset * MinuteSec + drivingTime.num) ELSE NaN

(***************************************************************************)
(* The world outside the screen.  A place is known by its name (its        *)
(* place_id and its geometry.location go with the name).                   *)
(***************************************************************************)
\* SearchScreen's singaporeLocation {lat: 1.3521, lng: 103.8198}
singaporeLocation == "1.3521,103.8198"

\* parking_lots_names.js, the bundled list of public lots
parkingList == {"A70", "TPMR", "B8"}

\* the places that can lie around the destination: three listed lots with
\* a live reading (one of them 3 km away), a listed lot without one, and a
\* lot with a live reading that the bundled list does not know
NearbyPlaces == {"A70", "TPMR", "HG9", "B8", "X9"}

\* how far from the destination a place lies, metres
PlaceDistance(name) ==
  CASE name = "A70" -> 900
    [] name = "TPMR" -> 300
    [] name = "B8" -> 600
    [] name = "X9" -> 500
    [] OTHER -> 3000

\* dataAPI.items[0].carpark_data of the carpark-availability response
CarparkData ==
  << [carpark_number |-> "X9", lots_available |-> 40, total_lots |-> 50,
      update_datetime |-> Str("2024-11-20T10:00:00")],
     [carpark_number |-> "A70", lots_available |-> 12, total_lots |-> 100,
      update_datetime |-> Str("2024-11-20T10:01:00")],
     [carpark_number |-> "TPMR", lots_available |-> 3, total_lots |-> 200,
      update_datetime |-> Str("2024-11-20T10:02:00")],
     [carpark_number |-> "HG9", lots_available |-> 7, total_lots |-> 80,
      update_datetime |-> Str("2024-11-20T10:03:00")] >>

\* result.distance.text of the Distance Matrix answer, destination -> lot:
\* the number is held in tenths, "1.2 km" is [tenths |-> 12, unit |-> "km"]
DistanceText(location) ==
  CASE location = "A70" -> [tenths |-> 12, unit |-> "km"]
    [] location = "TPMR" -> [tenths |-> 3, unit |-> "km"]
    [] location = "B8" -> [tenths |-> 7, unit |-> "km"]
    [] OTHER -> [tenths |-> 34, unit |-> "km"]

\* result.duration.value of the Distance Matrix answer, seconds: the drive
\* from the centre of Singapore, and a longer one from anywhere else
DurationValue(origins, destinations) ==
  LET fromCentre == CASE destinations = "A70" -> 300
                      [] destinations = "TPMR" -> 240
                      [] destinations = "B8" -> 420
                      [] OTHER -> 900
  IN IF origins = singaporeLocation THEN fromCentre ELSE fromCentre + 420

\* predictions[0] of the /predict answer for a model name: one value per
\* forecast step 0..8, held in tenths of a lot
ForecastRow(modelName) ==
  CASE modelName = "A70" -> [i \in 0..8 |-> 118 - 7 * i]
    [] modelName = "TPMR" -> [i \in 0..8 |-> 25 + 2 * i]
    [] OTHER -> [i \in 0..8 |-> 200 + i]

\* how a request can end
NetOutcomes == {"OK", "error"}
DistanceOutcomes == {"OK", "failed"}
DriveOutcomes == {"OK", "notOK", "error"}
PredictOutcomes == {"OK", "error", "noPredictions"}

(***************************************************************************)
(* Sequences.                                                              *)
(***************************************************************************)
Range(s) == {s[i] : i \in DOMAIN s}

\* the sequences over S of length at most n, without repetition
RECURSIVE SeqsUpTo(_, _)
SeqsUpTo(S, n) ==
  IF n = 0 THEN {<<>>}
  ELSE LET shorter == SeqsUpTo(S, n - 1)
       IN shorter \cup {Append(q, x) : q \in {r \in shorter : Len(r) = n - 1}, x \in S}

NoRepeat(q) == \A i, j \in DOMAIN q : i # j => q[i] # q[j]

(***************************************************************************)
(* sortParkings.                                                           *)
(***************************************************************************)
Infinity == [infinity |-> TRUE]

\* getNumericDistance: the first run of digits and dots of the text, as a
\* number (tenths); Infinity for a missing text
getNumericDistance(distance) ==
  IF DOMAIN distance = {"tenths", "unit"} THEN Num(distance.tenths) ELSE Infinity

\* a plausible slip: a - b instead of b - a in the availableLots comparator
SortBeforeAscending(option, a, b) ==
  IF option = "distance"
  THEN LET distanceA == getNumericDistance(a.distanceToDestination)
           distanceB == getNumericDistance(b.distanceToDestination)
       IN IsNum(distanceA) /\ (IsNum(distanceB) => distanceA.num < distanceB.num)
  ELSE IF option = "availableLots"
  THEN a.carpark_info_available_lots.num - b.carpark_info_available_lots.num < 0
  ELSE a.distance - b.distance < 0

\* the comparator's result is negative (Infinity - Infinity is NaN, which
\* sort takes as 0)
SortBefore(option, a, b) ==
  IF option = "distance"
  THEN LET distanceA == getNumericDistance(a.distanceToDestination)
           distanceB == getNumericDistance(b.distanceToDestination)
       IN IsNum(distanceA) /\ (IsNum(distanceB) => distanceA.num < distanceB.num)
  ELSE IF option = "availableLots"
  THEN b.carpark_info_available_lots.num - a.carpark_info_available_lots.num < 0
  ELSE a.distance - b.distance < 0

\* Array.prototype.sort, which is stable: x goes before the first element
\* the comparator puts it strictly before
RECURSIVE InsertSorted(_, _, _)
InsertSorted(x, sorted, option) ==
  IF sorted = <<>> THEN <<x>>
  ELSE IF SortBefore(option, x, Head(sorted)) THEN <<x>> \o sorted
       ELSE <<Head(sorted)>> \o InsertSorted(x, Tail(sorted), option)

RECURSIVE ArraySort(_, _)
ArraySort(data, option) ==
  IF data = <<>> THEN <<>>
  ELSE InsertSorted(data[Len(data)], ArraySort(SubSeq(data, 1, Len(data) - 1), option), option)

\* sortParkings(data) under a given sortOption
sortParkings(data, option) ==
  IF option = "distance" THEN ArraySort(data, "distance")
  ELSE IF option = "availableLots" THEN ArraySort(data, "availableLots")
  ELSE data

\* a plausible slip: sortedData = data, so that sort works on the argument
sortParkingsCallInPlace(data, option) ==
  [sortedData |-> sortParkings(data, option),
   data |-> IF option \in {"distance", "availableLots"}
            THEN sortParkings(data, option) ELSE data]

\* one call of sortParkings: what it returns, and its argument afterwards
\* (sort works in place, on the shallow copy [...data])
sortParkingsCall(data, option) ==
  [sortedData |-> sortParkings(data, option), data |-> data]

SortIdle ==
  /\ sortData = <<>>
  /\ sortChoice = Undefined
  /\ sortReturn = Undefined

(***************************************************************************)
(* The search screen.                                                      *)
(***************************************************************************)
\* where the device can be
DeviceLocations == {singaporeLocation, "1.3329,103.7436", "1.3644,103.9915"}

\* what a text search can find
SearchPlaces ==
  << [name |-> "Toa Payoh ActiveSG Stadium", place_id |-> "p1",
      formatted_address |-> [text |-> "297A Lor 6 Toa Payoh", includesSingapore |-> TRUE],
      location |-> "1.3301,103.8507"],
     [name |-> "National Stadium", place_id |-> "p2",
      formatted_address |-> [text |-> "1 Stadium Dr", includesSingapore |-> TRUE],
      location |-> "1.3040,103.8744"],
     [name |-> "Stadium Tan Sri Dato Haji Hassan Yunos", place_id |-> "p3",
      formatted_address |-> [text |-> "Jalan Dato Jaafar, Johor Bahru, Malaysia",
                             includesSingapore |-> FALSE],
      location |-> "1.4927,103.7414"] >>

\* haversine(userLocation, placeLocation), metres
haversine(userLocation, placeLocation) ==
  LET fromCentre == CASE placeLocation = "1.3301,103.8507" -> 4220
                      [] placeLocation = "1.3040,103.8744" -> 8090
                      [] OTHER -> 17900
  IN IF userLocation = singaporeLocation THEN fromCentre ELSE fromCentre + 5000

\* the region of useState, and the one the permission effect sets
InitialRegion == [location |-> singaporeLocation, latitudeDelta |-> "0.2"]
GrantedRegion == [location |-> singaporeLocation, latitudeDelta |-> "0.1"]

NotNavigated == [destination |-> Undefined, currentLocation |-> Undefined]

SearchInit ==
  /\ deviceLocation \in DeviceLocations
  /\ permissionStatus = "asking"
  /\ searchLocationLoading = TRUE
  /\ region = InitialRegion
  /\ places = <<>>
  /\ searchLoading = FALSE
  /\ searchesInFlight = 0
  /\ selectedPlace = Null

\* the permission effect of lines 33-53, after its await
PermissionAnswer(status) ==
  /\ permissionStatus = "asking"
  /\ permissionStatus' = status
  /\ region' = IF status = "granted" THEN GrantedRegion ELSE region
  /\ searchLocationLoading' = FALSE
  /\ UNCHANGED <<markerVars, sortVars, backendVars, slotVars, screenVars, deviceLocation, places, searchLoading,
                 searchesInFlight, selectedPlace>>

\* handleSearchPress up to its await
HandleSearchPress ==
  /\ ~searchLocationLoading
  /\ searchesInFlight < MaxInFlight
  /\ searchLoading' = TRUE
  /\ searchesInFlight' = searchesInFlight + 1
  /\ UNCHANGED <<markerVars, sortVars, backendVars, slotVars, screenVars, deviceLocation, permissionStatus,
                 searchLocationLoading, region, places, selectedPlace>>

\* a plausible slip: the filter on formatted_address is left out
resultsWithDistanceUnfiltered(results) ==
  [i \in DOMAIN results |->
     [name |-> results[i].name,
      place_id |-> results[i].place_id,
      formatted_address |-> results[i].formatted_address,
      location |-> results[i].location,
      distance |-> haversine(singaporeLocation, results[i].location)]]

\* singaporeResults, with the distance of each
resultsWithDistance(results) ==
  LET InSingapore(place) == place.formatted_address.includesSingapore
      singaporeResults == SelectSeq(results, InSingapore)
      userLocation == singaporeLocation
  IN [i \in DOMAIN singaporeResults |->
        [name |-> singaporeResults[i].name,
         place_id |-> singaporeResults[i].place_id,
         formatted_address |-> singaporeResults[i].formatted_address,
         location |-> singaporeResults[i].location,
         distance |-> haversine(userLocation, singaporeResults[i].location)]]

\* the text-search answers: the places found, in Google's order
SearchAnswers ==
  {[i \in DOMAIN q |-> SearchPlaces[q[i]]] :
     q \in {r \in SeqsUpTo(DOMAIN SearchPlaces, MaxResults) : NoRepeat(r)}}

\* handleSearchPress after its await
SearchResponse(outcome, results) ==
  /\ searchesInFlight > 0
  /\ searchesInFlight' = searchesInFlight - 1
  /\ places' = IF outcome = "OK"
               THEN ArraySort(resultsWithDistance(results), "haversine")
               ELSE places
  /\ searchLoading' = FALSE
  /\ UNCHANGED <<markerVars, sortVars, backendVars, slotVars, screenVars, deviceLocation, permissionStatus,
                 searchLocationLoading, region, selectedPlace>>

\* handlePlacePress: the parking screen is opened with these route.params
HandlePlacePress(k) ==
  /\ ~searchLocationLoading
  /\ ~searchLoading
  /\ k \in DOMAIN places
  /\ selectedPlace' = places[k]
  /\ routeParams' = [destination |-> places[k].location, currentLocation |-> region]
  /\ UNCHANGED <<markerVars, sortVars, backendVars, slotVars, deviceLocation, permissionStatus, searchLocationLoading,
                 region, places, searchLoading, searchesInFlight>>
  /\ UNCHANGED <<placesAround, earlyRefThrows, currentMinute, screenPc,
                 minutesToNextQuarter, renderMinutes, closureMinutes, sortOption,
                 closureSortOption, sortEffectPending, parkings, originalParkings,
                 loading, locationLoading, fetchPc, currentRadius, requestedRadius,
                 nearbyResults, chains>>

PermissionStatuses == {"granted", "denied"}

(***************************************************************************)
(* What the row and the marker of a lot show.                              *)
(***************************************************************************)
\* v < n as JavaScript compares: false for undefined and for a text that
\* is no number
JsLess(v, n) == IsNum(v) /\ v.num < n
JsGreater(v, n) == IsNum(v) /\ v.num > n

\* Math.floor: a forecast value is held in tenths
MathFloor(v) ==
  IF DOMAIN v = {"tenths"} THEN Num(v.tenths \div 10)
  ELSE IF IsNum(v) THEN v ELSE NaN

\* getMarkerColor
getMarkerColor(availableLots) ==
  IF JsGreater(availableLots, 10) THEN "green"
  ELSE IF JsGreater(availableLots, 5) THEN "yellow"
  ELSE "red"

\* renderPlace: which count the row of the list shows
RowAvailable(item) ==
  IF JsLess(item.drivingTime, RealTimeLimit)
  THEN [kind |-> "realtime", value |-> item.carpark_info_available_lots]
  ELSE [kind |-> "predictive", value |-> MathFloor(item.prediction)]

\* a plausible slip: the marker switches at <= 300
MarkerAvailableInclusive(parking) ==
  IF IsNum(parking.drivingTime) /\ parking.drivingTime.num <= RealTimeLimit
  THEN [kind |-> "realtime", value |-> parking.carpark_info_available_lots]
  ELSE [kind |-> "predictive", value |-> MathFloor(parking.prediction)]

\* Marker description: which count the marker shows
MarkerAvailable(parking) ==
  IF JsLess(parking.drivingTime, RealTimeLimit)
  THEN [kind |-> "realtime", value |-> parking.carpark_info_available_lots]
  ELSE [kind |-> "predictive", value |-> MathFloor(parking.prediction)]

\* Marker pinColor
MarkerPinColor(parking) ==
  IF JsLess(parking.drivingTime, RealTimeLimit)
  THEN getMarkerColor(parking.carpark_info_available_lots)
  ELSE getMarkerColor(MathFloor(parking.prediction))

MarkerIdle ==
  /\ markerParking = Undefined
  /\ markerColor = Undefined

(***************************************************************************)
(* The parking screen.                                                     *)
(***************************************************************************)
\* lines 201-202 assign an undeclared name and read a const before its
\* declaration: a bundle that runs the module as strict code, or keeps the
\* temporal dead zone, throws a ReferenceError there; Metro's sloppy
\* CommonJS with const lowered to var does not.  Both are possible.
BuildChoices == BOOLEAN

\* the minutes of the hour the screen is opened at
MinuteSamples == {0, 50}

\* the places around a destination, in the order Google ranks them
NearbyOptions == {q \in SeqsUpTo(NearbyPlaces, MaxPlaces) : NoRepeat(q)}

\* the answer to a nearby search of the given radius
WithinRadius(q, radius) ==
  LET Near(name) == PlaceDistance(name) <= radius IN SelectSeq(q, Near)

\* Google's result item of a place
PlaceItem(name) ==
  [name |-> name,
   carpark_info_total_lots |-> Undefined,
   carpark_info_available_lots |-> Undefined,
   prediction |-> Undefined,
   update_datetime |-> Undefined,
   drivingTime |-> Undefined,
   distanceToDestination |-> Undefined]

NoChains == <<>>

ScreenInit ==
  /\ earlyRefThrows \in BuildChoices
  /\ currentMinute \in MinuteSamples
  /\ screenPc = "rendered"
  /\ minutesToNextQuarter = 0
  /\ renderMinutes = 0
  /\ closureMinutes = Undefined
  /\ sortOption = "distance"
  /\ closureSortOption = Undefined
  /\ sortEffectPending = FALSE
  /\ parkings = <<>>
  /\ originalParkings = <<>>
  /\ loading = TRUE
  /\ locationLoading = TRUE
  /\ fetchPc = "idle"
  /\ currentRadius = 0
  /\ requestedRadius = 0
  /\ placesAround \in NearbyOptions
  /\ nearbyResults = <<>>
  /\ routeParams = [destination |-> SearchPlaces[1].location,
                    currentLocation |-> GrantedRegion]
  /\ chains = NoChains

\* useEffect(..., []) of lines 33-39
MountEffect ==
  /\ screenPc = "rendered"
  /\ minutesToNextQuarter' = MinutesRemaining(currentMinute)
  /\ screenPc' = "mountDone"
  /\ UNCHANGED <<markerVars, sortVars, backendVars, slotVars, searchVars, placesAround, earlyRefThrows, currentMinute, renderMinutes, closureMinutes,
                 sortOption, closureSortOption, sortEffectPending, parkings,
                 originalParkings, loading, locationLoading, fetchPc,
                 currentRadius, requestedRadius, nearbyResults, routeParams, chains>>

\* useEffect(..., [destination]) of lines 64-264, up to the first await of
\* fetchWithRadius(1000): its closures hold the state of the render that
\* was committed
FetchEffect ==
  /\ screenPc = "mountDone"
  /\ closureMinutes' = renderMinutes
  /\ closureSortOption' = sortOption
  /\ locationLoading' = TRUE
  /\ currentRadius' = RadiusStart
  /\ requestedRadius' = RequestRadius
  /\ fetchPc' = "nearby"
  /\ screenPc' = "effectsRun"
  /\ UNCHANGED <<markerVars, sortVars, backendVars, slotVars, searchVars, placesAround, earlyRefThrows, currentMinute, minutesToNextQuarter, renderMinutes,
                 sortOption, sortEffectPending, parkings, originalParkings,
                 loading, nearbyResults, routeParams, chains>>

\* the render that setMinutesToNextQuarter asked for; [destination] is
\* unchanged, so the fetch effect does not run again
Rerender ==
  /\ screenPc = "effectsRun"
  /\ renderMinutes' = minutesToNextQuarter
  /\ screenPc' = "mounted"
  /\ UNCHANGED <<markerVars, sortVars, backendVars, slotVars, searchVars, placesAround, earlyRefThrows, currentMinute, minutesToNextQuarter, closureMinutes,
                 sortOption, closureSortOption, sortEffectPending, parkings,
                 originalParkings, loading, locationLoading, fetchPc,
                 currentRadius, requestedRadius, nearbyResults, routeParams, chains>>

(***************************************************************************)
(* fetchParkingLots / fetchWithRadius.                                     *)
(***************************************************************************)
\* a plausible slip: the filter against the bundled list left out
IsListedAny(name) == TRUE

\* parkingArrayBeforeFiltered.filter(item => parkingList.includes(item.name))
IsListed(name) == name \in parkingList
ParkingArray == SelectSeq(nearbyResults, IsListed)

\* dataAPI.items[0].carpark_data.find(item2 => item2.carpark_number === item1.name)
matchingCarpark(name) ==
  LET hits == {i \in DOMAIN CarparkData : CarparkData[i].carpark_number = name}
  IN IF hits = {} THEN Undefined
     ELSE CarparkData[CHOOSE i \in hits : \A j \in hits : i <= j]

\* the requests of one lot's callback
DistanceRequest(name) ==
  [url |-> "distancematrix", origins |-> routeParams.destination, destinations |-> name]
DriveTimeRequest(name) ==
  [url |-> "distancematrix", origins |-> routeParams.currentLocation.location,
   destinations |-> name]
\* a plausible slip: the model name taken from a variable the callbacks share
PredictRequestShared(name) ==
  [url |-> "predict", model_name |-> ParkingArray[1]]
PredictRequest(name) ==
  [url |-> "predict", model_name |-> name]

\* the async callback of parkingArray.map, run to its first await
StartChain(name) ==
  IF matchingCarpark(name) = Undefined
  THEN [name |-> name, pc |-> "resolved", req |-> Undefined,
        distanceToParking |-> Undefined, drivingTimeFromGoogle |-> Undefined,
        A |-> Undefined, index |-> Undefined, predictOutcome |-> "none",
        result |-> PlaceItem(name)]
  ELSE [name |-> name, pc |-> "distance", req |-> DistanceRequest(name),
        distanceToParking |-> Undefined, drivingTimeFromGoogle |-> Undefined,
        A |-> Undefined, index |-> Undefined, predictOutcome |-> "none",
        result |-> Undefined]

\* getDistanceToParking's return value for the answer to req
getDistanceToParking(req, outcome) ==
  IF outcome = "OK" THEN DistanceText(req.destinations) ELSE Null

\* getDriveTime's return value for the answer to req; Thrown when the catch
\* block's Alert.alert fails (Alert is not imported) and the promise rejects
getDriveTime(req, outcome) ==
  IF outcome = "OK" THEN Num(DurationValue(req.origins, req.destinations))
  ELSE IF outcome = "notOK" THEN Str("cannot get the driving time")
  ELSE Thrown

\* a plausible slip: fetchPrediction without its try/catch, so that a failed
\* request rejects the lot's callback
fetchPredictionNoCatch(req, drivingTime, outcome) ==
  IF outcome = "error"
  THEN [A |-> Undefined, index |-> Undefined, value |-> Thrown]
  ELSE LET A == TotalMinutes(closureMinutes, drivingTime)
           returnDataPoint == calculateX(A)
           row == ForecastRow(req.model_name)
       IN [A |-> A, index |-> returnDataPoint,
           value |-> IF returnDataPoint = Thrown THEN Thrown
                     ELSE IF outcome = "noPredictions" THEN Str("No predictions found")
                     ELSE IF IsNum(returnDataPoint) /\ returnDataPoint.num \in DOMAIN row
                          THEN [tenths |-> row[returnDataPoint.num]]
                          ELSE Undefined]

\* fetchPrediction for the answer to req: the total minutes handed to
\* calculateX, the step index, and the value returned.  "error" is a
\* request that fails or a body that is no JSON: both reject inside the
\* try, and the catch returns undefined
fetchPrediction(req, drivingTime, outcome) ==
  IF outcome = "error"
  THEN [A |-> Undefined, index |-> Undefined, value |-> Undefined]
  ELSE LET A == TotalMinutes(closureMinutes, drivingTime)
           returnDataPoint == calculateX(A)
           row == ForecastRow(req.model_name)
       IN [A |-> A, index |-> returnDataPoint,
           value |-> IF returnDataPoint = Thrown THEN Undefined
                     ELSE IF outcome = "noPredictions" THEN Str("No predictions found")
                     ELSE IF IsNum(returnDataPoint) /\ returnDataPoint.num \in DOMAIN row
                          THEN [tenths |-> row[returnDataPoint.num]]
                          ELSE Undefined]

\* the object the callback returns for a lot with a live reading
MergedItem(name, prediction, drivingTime, distance) ==
  LET m == matchingCarpark(name)
  IN [name |-> name,
      carpark_info_total_lots |-> Num(m.total_lots),
      carpark_info_available_lots |-> Num(m.lots_available),
      prediction |-> prediction,
      update_datetime |-> m.update_datetime,
      drivingTime |-> drivingTime,
      distanceToDestination |-> distance]

\* updatedData.filter(item => item.update_datetime)
HasUpdateDatetime(item) == IsStr(item.update_datetime) /\ item.update_datetime.str # ""

fixedVars == <<markerVars, sortVars, backendVars, slotVars, searchVars, placesAround, earlyRefThrows, currentMinute, screenPc, minutesToNextQuarter,
               renderMinutes, closureMinutes, closureSortOption, routeParams>>

\* a plausible slip: setLoading(false) at the end of the try block only
CatchWithoutFinally ==
  /\ parkings' = <<>>
  /\ originalParkings' = <<>>
  /\ loading' = loading
  /\ fetchPc' = "returning"

\* catch (error) { setParkings([]); setOriginalParkings([]) } finally { setLoading(false) }
CatchAndFinally ==
  /\ parkings' = <<>>
  /\ originalParkings' = <<>>
  /\ loading' = FALSE
  /\ fetchPc' = "returning"

\* the answer to the nearby search arrives; the live data is requested
NearbyResponse(outcome) ==
  /\ screenPc = "mounted"
  /\ fetchPc = "nearby"
  /\ IF outcome = "OK"
     THEN /\ nearbyResults' = WithinRadius(placesAround, requestedRadius)
          /\ fetchPc' = "carpark"
          /\ UNCHANGED <<parkings, originalParkings, loading>>
     ELSE /\ CatchAndFinally
          /\ UNCHANGED nearbyResults
  /\ UNCHANGED <<fixedVars, sortOption, sortEffectPending, locationLoading,
                 currentRadius, requestedRadius, chains>>

\* the answer of carpark-availability arrives; lines 201-202 run
CarparkResponse(outcome) ==
  /\ fetchPc = "carpark"
  /\ IF outcome = "OK" /\ ~earlyRefThrows
     THEN /\ fetchPc' = "json"
          /\ UNCHANGED <<parkings, originalParkings, loading>>
     ELSE CatchAndFinally
  /\ UNCHANGED <<fixedVars, sortOption, sortEffectPending, locationLoading,
                 currentRadius, requestedRadius, nearbyResults, chains>>

\* responseAPI.json() settles; the results are filtered and either merged
\* lot by lot, or the search is given up, or tried again
JsonResponse(outcome) ==
  /\ fetchPc = "json"
  /\ IF outcome # "OK"
     THEN /\ CatchAndFinally
          /\ UNCHANGED <<currentRadius, requestedRadius, chains>>
     ELSE IF Len(ParkingArray) > 0
     THEN /\ chains' = [i \in DOMAIN ParkingArray |-> StartChain(ParkingArray[i])]
          /\ fetchPc' = "chains"
          /\ UNCHANGED <<parkings, originalParkings, loading, currentRadius, requestedRadius>>
     ELSE IF currentRadius >= RadiusLimit
     THEN /\ CatchAndFinally
          /\ UNCHANGED <<currentRadius, requestedRadius, chains>>
     ELSE /\ currentRadius' = currentRadius + RadiusStep
          /\ requestedRadius' = RequestRadius
          /\ fetchPc' = "nearby"
          /\ UNCHANGED <<parkings, originalParkings, loading, chains>>
  /\ UNCHANGED <<fixedVars, sortOption, sortEffectPending, locationLoading, nearbyResults>>

chainFrame == <<fixedVars, sortOption, sortEffectPending, parkings, originalParkings,
                loading, locationLoading, fetchPc, currentRadius, requestedRadius,
                nearbyResults>>

\* lot i: the distance answer arrives, the driving time is requested
DistanceResponse(i, outcome) ==
  /\ fetchPc = "chains"
  /\ i \in DOMAIN chains
  /\ chains[i].pc = "distance"
  /\ chains' = [chains EXCEPT ![i] =
        [@ EXCEPT !.distanceToParking = getDistanceToParking(chains[i].req, outcome),
                  !.pc = "drive",
                  !.req = DriveTimeRequest(chains[i].name)]]
  /\ UNCHANGED chainFrame

\* lot i: the driving-time answer arrives, the forecast is requested
DriveTimeResponse(i, outcome) ==
  /\ fetchPc = "chains"
  /\ i \in DOMAIN chains
  /\ chains[i].pc = "drive"
  /\ LET drivingTimeFromGoogle == getDriveTime(chains[i].req, outcome)
     IN chains' = [chains EXCEPT ![i] =
          IF drivingTimeFromGoogle = Thrown
          THEN [@ EXCEPT !.pc = "rejected", !.req = Undefined]
          ELSE [@ EXCEPT !.drivingTimeFromGoogle = drivingTimeFromGoogle,
                         !.pc = "predict",
                         !.req = PredictRequest(chains[i].name)]]
  /\ UNCHANGED chainFrame

\* lot i: the forecast answer arrives, the callback returns the merged lot
PredictResponse(i, outcome) ==
  /\ fetchPc = "chains"
  /\ i \in DOMAIN chains
  /\ chains[i].pc = "predict"
  /\ LET c == chains[i]
         p == fetchPrediction(c.req, c.drivingTimeFromGoogle, outcome)
     IN chains' = [chains EXCEPT ![i] =
          IF p.value = Thrown
          THEN [@ EXCEPT !.pc = "rejected", !.req = Undefined,
                         !.predictOutcome = outcome]
          ELSE [@ EXCEPT !.pc = "resolved", !.req = Undefined,
                         !.A = p.A, !.index = p.index, !.predictOutcome = outcome,
                         !.result = MergedItem(c.name, p.value, c.drivingTimeFromGoogle,
                                               c.distanceToParking)]]
  /\ UNCHANGED chainFrame

\* Promise.all resolves: filter, sort with the effect's own sortParkings, show
PromiseAllResolved ==
  /\ fetchPc = "chains"
  /\ \A i \in DOMAIN chains : chains[i].pc = "resolved"
  /\ LET updatedData == [i \in DOMAIN chains |-> chains[i].result]
         filteredData == SelectSeq(updatedData, HasUpdateDatetime)
         sortedData == sortParkings(filteredData, closureSortOption)
     IN /\ parkings' = sortedData
        /\ originalParkings' = sortedData
  /\ loading' = FALSE
  /\ fetchPc' = "returning"
  /\ UNCHANGED <<fixedVars, sortOption, sortEffectPending, locationLoading,
                 currentRadius, requestedRadius, nearbyResults, chains>>

\* a plausible slip: the lots whose callbacks returned are shown although
\* another callback rejected (Promise.allSettled in place of Promise.all)
PromiseAllSettled ==
  /\ fetchPc = "chains"
  /\ \E i \in DOMAIN chains : chains[i].pc = "rejected"
  /\ \A i \in DOMAIN chains : chains[i].pc \in {"rejected", "resolved"}
  /\ LET fulfilled == SelectSeq(chains, LAMBDA c : c.pc = "resolved")
         updatedData == [i \in DOMAIN fulfilled |-> fulfilled[i].result]
         sortedData == sortParkings(SelectSeq(updatedData, HasUpdateDatetime),
                                    closureSortOption)
     IN /\ parkings' = sortedData
        /\ originalParkings' = sortedData
  /\ loading' = FALSE
  /\ fetchPc' = "returning"
  /\ UNCHANGED <<fixedVars, sortOption, sortEffectPending, locationLoading,
                 currentRadius, requestedRadius, nearbyResults, chains>>

\* Promise.all rejects with the first callback that rejects; what the
\* other callbacks do afterwards reaches no state of the screen
PromiseAllRejected ==
  /\ fetchPc = "chains"
  /\ \E i \in DOMAIN chains : chains[i].pc = "rejected"
  /\ CatchAndFinally
  /\ UNCHANGED <<fixedVars, sortOption, sortEffectPending, locationLoading,
                 currentRadius, requestedRadius, nearbyResults, chains>>

\* fetchWithRadius has returned to fetchParkingLots
FetchReturn ==
  /\ fetchPc = "returning"
  /\ locationLoading' = FALSE
  /\ fetchPc' = "done"
  /\ UNCHANGED <<fixedVars, sortOption, sortEffectPending, parkings, originalParkings,
                 loading, currentRadius, requestedRadius, nearbyResults, chains>>

\* a sort button is pressed
SortPress(option) ==
  /\ screenPc = "mounted"
  /\ sortOption' = option
  /\ sortEffectPending' = (sortEffectPending \/ option # sortOption)
  /\ UNCHANGED <<fixedVars, parkings, originalParkings, loading, locationLoading,
                 fetchPc, currentRadius, requestedRadius, nearbyResults, chains>>

\* useEffect(..., [sortOption]) of lines 266-270
SortEffect ==
  /\ sortEffectPending
  /\ sortEffectPending' = FALSE
  /\ IF Len(originalParkings) > 0
     THEN LET call == sortParkingsCall(originalParkings, sortOption)
          IN /\ parkings' = call.sortedData
             /\ originalParkings' = call.data
     ELSE UNCHANGED <<parkings, originalParkings>>
  /\ UNCHANGED <<fixedVars, sortOption, loading, locationLoading,
                 fetchPc, currentRadius, requestedRadius, nearbyResults, chains>>

SortOptions == {"distance", "availableLots"}

(***************************************************************************)
(* The backend: Availability Repository, Artifact Store, Forecast Service  *)
(* and Edge Gateway.  Their code (EC2/server.py, the three Lambda          *)
(* functions, the inference script) is not among the sources at hand; the  *)
(* definitions below follow spec.md sections 3 to 7.                       *)
(***************************************************************************)
\* the feature window: how many recent readings one inference consumes
RequiredWindow == 2
\* the last forecast step (15-minute steps over 120 minutes)
HorizonSteps == 8

\* the lots of the external carpark feed, and the lots a client may name
FeedLots == {"A70", "TPMR"}
RequestLots == FeedLots \cup {"ZZ9"}
\* the lots a trained model and scaler exist for
ArtifactLots == {"A70", "TPMR"}
Counts == 1..MaxCount

\* one row of the ingestion cycle `stamp` for a lot
ReadingOf(lot, stamp) ==
  [lot |-> lot, timestamp |-> stamp,
   available |-> IF lot = "A70" THEN 12 + 7 * stamp ELSE 3 + 2 * stamp,
   total |-> IF lot = "A70" THEN 100 ELSE 200]

\* the artifact of a lot in the Artifact Store: a model and its paired scaler
ArtifactStore(lot) == [model |-> [trainedFor |-> lot], scaler |-> [fitFor |-> lot]]
NoArtifact == [none |-> TRUE]

\* the cache is keyed by lot identifier
CacheKeyShared(lot) == "model"
CacheKey(lot) == lot

\* what the cache keeps of a loaded artifact: the model with its scaler
CacheEntryModelOnly(artifact) == [artifact EXCEPT !.scaler = [fitFor |-> "none"]]
CacheEntry(artifact) == artifact

CachePut(cache, key, entry) ==
  [k \in DOMAIN cache \cup {key} |-> IF k = key THEN entry ELSE cache[k]]

\* the most recent RequiredWindow readings, oldest first
LastWindow(history) == SubSeq(history, Len(history) - RequiredWindow + 1, Len(history))

RECURSIVE SumAvailable(_)
SumAvailable(window) ==
  IF window = <<>> THEN 0 ELSE Head(window).available + SumAvailable(Tail(window))

ModelWeight(model) == IF model.trainedFor = "A70" THEN 3 ELSE 5
ScalerOffset(scaler) ==
  IF scaler.fitFor = "A70" THEN 100 ELSE IF scaler.fitFor = "TPMR" THEN 200 ELSE 0

\* inference: one predicted count per step 0..HorizonSteps, a function of
\* the model, the scaler and the window
Inference(artifact, window) ==
  [k \in 0..HorizonSteps |->
     ScalerOffset(artifact.scaler) + ModelWeight(artifact.model) * SumAvailable(window) + k]

\* a plausible slip: a short history is padded by repeating what there is
forecastPadded(artifact, history) ==
  IF Len(history) < RequiredWindow
  THEN [status |-> "OK", output |-> Inference(artifact, history)]
  ELSE [status |-> "OK", output |-> Inference(artifact, LastWindow(history))]

\* forecast(lot_id), once the artifact is at hand and the history is read
forecast(artifact, history) ==
  IF Len(history) < RequiredWindow
  THEN [status |-> "InsufficientHistory", output |-> <<>>]
  ELSE [status |-> "OK", output |-> Inference(artifact, LastWindow(history))]

\* the newest first rows of a history
RECURSIVE Reverse(_)
Reverse(q) == IF q = <<>> THEN <<>> ELSE Reverse(Tail(q)) \o <<Head(q)>>
NewestFirst(history, count) ==
  LET newest == Reverse(history)
  IN SubSeq(newest, 1, IF count < Len(newest) THEN count ELSE Len(newest))

\* a plausible slip: a lot without rows is reported as not found
get_availabilityNotFound(lot, count) ==
  IF readings[lot] = <<>>
  THEN [status |-> 404, body |-> <<>>]
  ELSE [status |-> 200, body |-> NewestFirst(readings[lot], count)]

\* POST /parkinglot: the most recent count readings of the lot
get_availability(lot, count) ==
  [status |-> 200, body |-> NewestFirst(readings[lot], count)]

\* a plausible slip: the identifiers are read off the stored readings
list_lotsFromReadings == {lot \in RequestLots : readings[lot] # <<>>}

\* GET /parkinglot: the identifiers of the lot catalog
list_lots == catalog

NoAnswer == [none |-> TRUE]

BackendIdle ==
  /\ catalog = {}
  /\ readings = [lot \in RequestLots |-> <<>>]
  /\ nextStamp = 1
  /\ modelCache = <<>>
  /\ requests = <<>>
  /\ returnedIds = {}
  /\ lastAvailability = NoAnswer

\* one cycle of the ingestion job: one row for every lot of the feed
Ingest ==
  /\ nextStamp <= MaxCycles
  /\ catalog' = catalog \cup FeedLots
  /\ readings' = [lot \in RequestLots |->
                    IF lot \in FeedLots THEN Append(readings[lot], ReadingOf(lot, nextStamp))
                    ELSE readings[lot]]
  /\ nextStamp' = nextStamp + 1
  /\ UNCHANGED <<clientVars, modelCache, requests, returnedIds, lastAvailability>>

\* the cleanup job: the rows older than the retention window, which are
\* those stamped before some cutoff, are deleted
Cleanup(cutoff) ==
  /\ cutoff \in 2..nextStamp
  /\ \E lot \in RequestLots : readings[lot] # <<>> /\ Head(readings[lot]).timestamp < cutoff
  /\ readings' = [lot \in RequestLots |->
                    SelectSeq(readings[lot], LAMBDA row : row.timestamp >= cutoff)]
  /\ UNCHANGED <<clientVars, catalog, nextStamp, modelCache, requests, returnedIds, lastAvailability>>

\* a client posts to /parkinglot
GetAvailability(lot, count) ==
  /\ LET answer == get_availability(lot, count)
     IN /\ lastAvailability' = [lot |-> lot, count |-> count, status |-> answer.status,
                                body |-> answer.body,
                                known |-> (lot \in catalog \/ readings[lot] # <<>>)]
        /\ returnedIds' = returnedIds \cup {answer.body[i].lot : i \in DOMAIN answer.body}
  /\ lastAvailability' # lastAvailability
  /\ UNCHANGED <<clientVars, catalog, readings, nextStamp, modelCache, requests>>

\* a forecast request arrives
Arrive(lot) ==
  /\ Len(requests) < MaxRequests
  /\ requests' = Append(requests, [lot |-> lot, pc |-> "lookup", artifact |-> NoArtifact,
                                   loaded |-> FALSE, history |-> <<>>,
                                   status |-> "pending", output |-> <<>>])
  /\ UNCHANGED <<clientVars, catalog, readings, nextStamp, modelCache, returnedIds, lastAvailability>>

\* step 1 of forecast: the cache is consulted
CacheLookup(r) ==
  /\ r \in DOMAIN requests
  /\ requests[r].pc = "lookup"
  /\ LET lot == requests[r].lot
     IN requests' = [requests EXCEPT ![r] =
          IF CacheKey(lot) \in DOMAIN modelCache
          THEN [@ EXCEPT !.pc = "history", !.artifact = modelCache[CacheKey(lot)]]
          ELSE IF lot \notin ArtifactLots
          THEN [@ EXCEPT !.pc = "failed", !.status = "ModelNotFound"]
          ELSE [@ EXCEPT !.pc = "loading"]]
  /\ UNCHANGED <<clientVars, catalog, readings, nextStamp, modelCache, returnedIds, lastAvailability>>

\* the load from the Artifact Store returns: the artifact is cached and used
LoadReturn(r, outcome) ==
  /\ r \in DOMAIN requests
  /\ requests[r].pc = "loading"
  /\ LET lot == requests[r].lot
         artifact == ArtifactStore(lot)
     IN IF outcome = "OK"
        THEN /\ modelCache' = CachePut(modelCache, CacheKey(lot), CacheEntry(artifact))
             /\ requests' = [requests EXCEPT ![r] =
                  [@ EXCEPT !.pc = "history", !.artifact = artifact, !.loaded = TRUE]]
        ELSE /\ requests' = [requests EXCEPT ![r] =
                  [@ EXCEPT !.pc = "failed", !.status = "UpstreamUnavailable"]]
             /\ UNCHANGED modelCache
  /\ UNCHANGED <<clientVars, catalog, readings, nextStamp, returnedIds, lastAvailability>>

\* steps 2 to 5 of forecast: the history is read and the inference runs
HistoryReturn(r, outcome) ==
  /\ r \in DOMAIN requests
  /\ requests[r].pc = "history"
  /\ LET lot == requests[r].lot
         result == forecast(requests[r].artifact, readings[lot])
     IN requests' = [requests EXCEPT ![r] =
          IF outcome = "OK"
          THEN [@ EXCEPT !.pc = "done", !.history = readings[lot],
                         !.status = result.status, !.output = result.output]
          ELSE [@ EXCEPT !.pc = "failed", !.status = "UpstreamUnavailable"]]
  /\ UNCHANGED <<clientVars, catalog, readings, nextStamp, modelCache, returnedIds, lastAvailability>>

\* the Edge Gateway's read path beside the two jobs
GatewayNext ==
  \/ Ingest
  \/ \E cutoff \in 2..(MaxCycles + 1) : Cleanup(cutoff)
  \/ \E lot \in RequestLots, count \in Counts : GetAvailability(lot, count)

\* the Forecast Service beside the two jobs
ForecastNext ==
  \/ Ingest
  \/ \E cutoff \in 2..(MaxCycles + 1) : Cleanup(cutoff)
  \/ \E lot \in RequestLots : Arrive(lot)
  \/ \E r \in 1..MaxRequests : CacheLookup(r)
  \/ \E r \in 1..MaxRequests, outcome \in NetOutcomes : LoadReturn(r, outcome)
  \/ \E r \in 1..MaxRequests, outcome \in NetOutcomes : HistoryReturn(r, outcome)

(***************************************************************************)
(* The parking screen.                                                     *)
(***************************************************************************)
Next ==
  \/ MountEffect
  \/ FetchEffect
  \/ Rerender
  \/ \E outcome \in NetOutcomes : NearbyResponse(outcome)
  \/ \E outcome \in NetOutcomes : CarparkResponse(outcome)
  \/ \E outcome \in NetOutcomes : JsonResponse(outcome)
  \/ \E i \in 1..MaxPlaces, outcome \in DistanceOutcomes : DistanceResponse(i, outcome)
  \/ \E i \in 1..MaxPlaces, outcome \in DriveOutcomes : DriveTimeResponse(i, outcome)
  \/ \E i \in 1..MaxPlaces, outcome \in PredictOutcomes : PredictResponse(i, outcome)
  \/ PromiseAllResolved
  \/ PromiseAllRejected
  \/ FetchReturn
  \/ \E option \in SortOptions : SortPress(option)
  \/ SortEffect

SlotIdle ==
  /\ slotMinute = 0
  /\ slotDriving = 0
  /\ slotOffset = Undefined
  /\ slotResult = Undefined

\* the search screen as it stands once a place has been pressed
SearchSettled ==
  /\ deviceLocation = singaporeLocation
  /\ permissionStatus = "granted"
  /\ searchLocationLoading = FALSE
  /\ region = GrantedRegion
  /\ places = ArraySort(resultsWithDistance(<<SearchPlaces[1]>>), "haversine")
  /\ searchLoading = FALSE
  /\ searchesInFlight = 0
  /\ selectedPlace = places[1]

Init == SlotIdle /\ SearchSettled /\ ScreenInit /\ BackendIdle /\ SortIdle /\ MarkerIdle
Spec == Init /\ [][Next]_vars

\* the steps of the screen's effects and of fetchParkingLots: effects run
\* once scheduled, and every request sent is answered or fails
FetchProgress ==
  \/ MountEffect
  \/ FetchEffect
  \/ Rerender
  \/ \E outcome \in NetOutcomes : NearbyResponse(outcome)
  \/ \E outcome \in NetOutcomes : CarparkResponse(outcome)
  \/ \E outcome \in NetOutcomes : JsonResponse(outcome)
  \/ \E i \in 1..MaxPlaces, outcome \in DistanceOutcomes : DistanceResponse(i, outcome)
  \/ \E i \in 1..MaxPlaces, outcome \in DriveOutcomes : DriveTimeResponse(i, outcome)
  \/ \E i \in 1..MaxPlaces, outcome \in PredictOutcomes : PredictResponse(i, outcome)
  \/ PromiseAllResolved
  \/ PromiseAllRejected
  \/ FetchReturn

\* the minute of the hour plays no part in how the fetch proceeds
FairInit == Init /\ currentMinute = 0

SpecFair == FairInit /\ [][Next]_vars /\ WF_vars(FetchProgress)

(***************************************************************************)
(* The slot arithmetic on its own: every minute of the hour, and driving   *)
(* times second by second up to MaxDrivingTime and around every half step  *)
(* beyond.                                                                 *)
(***************************************************************************)
DrivingTimes ==
  (0..MaxDrivingTime) \cup
  {k * HalfQuarterSec + j : k \in 0..MaxHalfSteps, j \in 0..1}

\* the parking screen stands still: one build, one minute, one destination
ScreenIdle ==
  /\ ScreenInit
  /\ earlyRefThrows = FALSE
  /\ currentMinute = 0
  /\ placesAround = <<>>

(***************************************************************************)
(* The search screen up to the opening of the parking screen.              *)
(***************************************************************************)
SearchScreenInit ==
  /\ SlotIdle
  /\ BackendIdle
  /\ SortIdle
  /\ MarkerIdle
  /\ SearchInit
  /\ earlyRefThrows = FALSE
  /\ currentMinute = 0
  /\ placesAround = <<>>
  /\ screenPc = "rendered"
  /\ minutesToNextQuarter = 0
  /\ renderMinutes = 0
  /\ closureMinutes = Undefined
  /\ sortOption = "distance"
  /\ closureSortOption = Undefined
  /\ sortEffectPending = FALSE
  /\ parkings = <<>>
  /\ originalParkings = <<>>
  /\ loading = TRUE
  /\ locationLoading = TRUE
  /\ fetchPc = "idle"
  /\ currentRadius = 0
  /\ requestedRadius = 0
  /\ nearbyResults = <<>>
  /\ routeParams = NotNavigated
  /\ chains = NoChains

SearchNext ==
  \/ \E status \in PermissionStatuses : PermissionAnswer(status)
  \/ HandleSearchPress
  \/ \E outcome \in NetOutcomes, results \in SearchAnswers : SearchResponse(outcome, results)
  \/ \E k \in 1..MaxResults : HandlePlacePress(k)

SpecSearch == SearchScreenInit /\ [][SearchNext]_vars

(***************************************************************************)
(* The backend on its own: the two screens stand still.                    *)
(***************************************************************************)
BackendInit ==
  /\ BackendIdle
  /\ SortIdle
  /\ MarkerIdle
  /\ SlotIdle
  /\ SearchSettled
  /\ ScreenIdle

SpecGateway == BackendInit /\ [][GatewayNext]_vars
SpecForecast == BackendInit /\ [][ForecastNext]_vars

SlotInit ==
  /\ slotMinute \in 0..LastMinute
  /\ slotDriving \in DrivingTimes
  /\ slotOffset = Undefined
  /\ slotResult = Undefined
  /\ SearchSettled
  /\ ScreenIdle
  /\ BackendIdle
  /\ SortIdle
  /\ MarkerIdle

SlotMount ==
  /\ slotOffset = Undefined
  /\ slotOffset' = Num(MinutesRemaining(slotMinute))
  /\ UNCHANGED <<markerVars, sortVars, backendVars, slotMinute, slotDriving, slotResult, screenVars, searchVars>>

SlotResolve ==
  /\ IsNum(slotOffset)
  /\ slotResult = Undefined
  /\ slotResult' = calculateX(TotalMinutes(slotOffset.num, Num(slotDriving)))
  /\ UNCHANGED <<markerVars, sortVars, backendVars, slotMinute, slotDriving, slotOffset, screenVars, searchVars>>

SlotNext == SlotMount \/ SlotResolve

SpecSlot == SlotInit /\ [][SlotNext]_vars

(***************************************************************************)
(* sortParkings on its own: every array of up to MaxSortLen different lots *)
(* in every order, under either sort option.                               *)
(***************************************************************************)
\* a merged lot as far as sortParkings reads it: the distance text of the
\* Distance Matrix answer (or null) and the live count
SortItem(name, distance, lots) ==
  [name |-> name, carpark_info_available_lots |-> Num(lots),
   distanceToDestination |-> distance]

SortItems ==
  { SortItem("A70", [tenths |-> 12, unit |-> "km"], 12),
    SortItem("TPMR", [tenths |-> 3, unit |-> "km"], 3),
    SortItem("B8", [tenths |-> 850, unit |-> "m"], 12),
    SortItem("HG9", Null, 7),
    SortItem("X9", [tenths |-> 34, unit |-> "km"], 40) }

SortInit ==
  /\ sortData \in {q \in SeqsUpTo(SortItems, MaxSortLen) : NoRepeat(q)}
  /\ sortChoice = Undefined
  /\ sortReturn = Undefined
  /\ SlotIdle
  /\ SearchSettled
  /\ ScreenIdle
  /\ BackendIdle
  /\ MarkerIdle

SortApply(option) ==
  /\ sortReturn = Undefined
  /\ sortChoice' = Str(option)
  /\ sortReturn' = sortParkingsCall(sortData, option)
  /\ UNCHANGED <<sortData, markerVars, slotVars, screenVars, searchVars, backendVars>>

SortNext == \E option \in SortOptions : SortApply(option)

SpecSort == SortInit /\ [][SortNext]_vars

(***************************************************************************)
(* One Marker on its own: every live count up to MaxLots, forecasts around *)
(* the legend's limits, driving times on both sides of the switch.         *)
(***************************************************************************)
MarkerDrivingTimes == {Num(240), Num(RealTimeLimit), Num(420)}
MarkerPredictions ==
  {[tenths |-> t] : t \in {0, 49, 50, 59, 60, 100, 109, 110}} \cup {Undefined}

MarkerInit ==
  /\ markerParking \in
       [drivingTime : MarkerDrivingTimes,
        carpark_info_available_lots : {Num(n) : n \in 0..MaxLots},
        prediction : MarkerPredictions]
  /\ markerColor = Undefined
  /\ SortIdle
  /\ SlotIdle
  /\ SearchSettled
  /\ ScreenIdle
  /\ BackendIdle

MarkerRender ==
  /\ markerColor = Undefined
  /\ markerColor' = Str(MarkerPinColor(markerParking))
  /\ UNCHANGED <<markerParking, sortVars, slotVars, screenVars, searchVars, backendVars>>

MarkerNext == MarkerRender

SpecMarker == MarkerInit /\ [][MarkerNext]_vars

\* the total time the resolved state was computed from, seconds
SlotA == slotOffset.num * MinuteSec + slotDriving
SlotResolved == slotResult # Undefined

(***************************************************************************)
(* C1: the step index returned by calculateX is an integer in 0..8 for     *)
(* every minute of the hour and every driving time >= 0.                   *)
(***************************************************************************)
C1_IndexInRange ==
  SlotResolved => (IsNum(slotResult) /\ slotResult.num \in 0..ClampIndex)

(***************************************************************************)
(* C2: whenever the unclamped index exceeds the 8 steps of the forecast,   *)
(* calculateX returns the fallback index 8 and raises nothing.             *)
(***************************************************************************)
UnclampedIndex(A) == (A \div QuarterSec) + (IF A % QuarterSec > HalfQuarterSec THEN 1 ELSE 0)

C2_ClampToFallback ==
  (SlotResolved /\ UnclampedIndex(SlotA) > ClampIndex) => slotResult = Num(ClampIndex)

(***************************************************************************)
(* C3: below the clamp calculateX(A) = floor(A/15) + (1 if A mod 15 > 7.5  *)
(* else 0): a remainder of exactly 7.5 rounds down, above 7.5 rounds up;   *)
(* A = 15 gives 1 and A = 12 gives 1.                                      *)
(***************************************************************************)
C3_RoundToNearestStep ==
  (SlotResolved /\ slotResult # Thrown) =>
     /\ slotResult = Num((SlotA \div 900) + (IF SlotA % 900 > 450 THEN 1 ELSE 0))
     /\ (SlotA % 900 = 450 => slotResult = Num(SlotA \div 900))
     /\ (SlotA = 900 => slotResult = Num(1))
     /\ (SlotA = 720 => slotResult = Num(1))

\* a total of exactly 7.5 minutes past a step has been resolved
C3_Witness ==
  SlotResolved /\ slotResult # Thrown /\ SlotA % 900 = 450 /\ SlotA > 900

(***************************************************************************)
(* C5: for every minute m in 0..59 the offset Math.ceil(m/15)*15 - m is in *)
(* 0..14, is the number of minutes from m to the next multiple of 15, and  *)
(* is 0 exactly when m is 0, 15, 30 or 45.                                 *)
(***************************************************************************)
C5_OffsetToNextQuarter ==
  IsNum(slotOffset) =>
     LET off == slotOffset.num
     IN /\ off \in 0..14
        /\ (slotMinute + off) % 15 = 0
        /\ \A j \in 0..14 : (j < off => (slotMinute + j) % 15 # 0)
        /\ (off = 0 <=> slotMinute \in {0, 15, 30, 45})

\* the offset of a minute on a quarter boundary other than :00 was computed
C5_Witness == IsNum(slotOffset) /\ slotMinute = 45 /\ slotOffset = Num(0)

(***************************************************************************)
(* Claims about the parking screen.                                        *)
(***************************************************************************)
\* the callbacks whose fetchPrediction reached calculateX
Evaluated(i) == chains[i].A # Undefined
AllResolved == chains # NoChains /\ \A i \in DOMAIN chains : chains[i].pc = "resolved"
FetchOver == fetchPc \in {"returning", "done"}
Shown(name) == \E k \in DOMAIN parkings : parkings[k].name = name
ShownItem(name) == parkings[CHOOSE k \in DOMAIN parkings : parkings[k].name = name]
LiveEntry(name) ==
  CHOOSE e \in Range(CarparkData) : e.carpark_number = name

(***************************************************************************)
(* C4: for every prediction request, the total minutes passed to           *)
(* calculateX are the offset the mount effect computed from the wall clock *)
(* plus drivingTime / 60.                                                  *)
(***************************************************************************)
C4_TotalUsesMountOffset ==
  \A i \in DOMAIN chains :
    (Evaluated(i) /\ IsNum(chains[i].drivingTimeFromGoogle)) =>
       chains[i].A = Num(MinutesRemaining(currentMinute) * 60
                         + chains[i].drivingTimeFromGoogle.num)

(***************************************************************************)
(* C6: for every listed lot the row and the marker (description and pin    *)
(* colour) show the live count when the driving time is below 300 seconds  *)
(* and the floored forecast when it is 300 seconds or more, and never      *)
(* disagree.                                                               *)
(***************************************************************************)
FloorOf(value, predicted) ==
  IF DOMAIN predicted = {"tenths"}
  THEN IsNum(value) /\ value.num * 10 <= predicted.tenths /\ predicted.tenths < value.num * 10 + 10
  ELSE value = NaN

C6_RowAndMarkerAgree ==
  \A k \in DOMAIN parkings :
    LET item == parkings[k]
        row == RowAvailable(item)
        marker == MarkerAvailable(item)
    IN /\ row = marker
       /\ (IsNum(item.drivingTime) /\ item.drivingTime.num < 300) =>
             /\ row = [kind |-> "realtime", value |-> item.carpark_info_available_lots]
             /\ MarkerPinColor(item) = getMarkerColor(item.carpark_info_available_lots)
       /\ (IsNum(item.drivingTime) /\ item.drivingTime.num >= 300) =>
             /\ row.kind = "predictive"
             /\ FloorOf(row.value, item.prediction)
             /\ MarkerPinColor(item) = getMarkerColor(row.value)

\* a lot exactly 300 seconds away is listed with a forecast, beside one nearer
C6_Witness ==
  /\ \E k \in DOMAIN parkings :
       parkings[k].drivingTime = Num(300) /\ DOMAIN parkings[k].prediction = {"tenths"}
  /\ \E k \in DOMAIN parkings :
       IsNum(parkings[k].drivingTime) /\ parkings[k].drivingTime.num < 300

(***************************************************************************)
(* C7: a forecast request that fails (network error, body that is no JSON, *)
(* payload without predictions) costs only that lot's prediction: the      *)
(* lot's callback still returns (it is never rejected by it), and when all *)
(* callbacks have returned, the lot is listed with its live available and  *)
(* total counts, the other lots keep their forecasts, and loading ends.    *)
(***************************************************************************)
ForecastFailed(i) == chains[i].predictOutcome \in {"error", "noPredictions"}

ExpectedForecast(i) ==
  IF IsNum(chains[i].index) /\ chains[i].index.num \in 0..8
  THEN [tenths |-> ForecastRow(chains[i].name)[chains[i].index.num]]
  ELSE Undefined

C7_ForecastFailureConfined ==
  /\ \A i \in DOMAIN chains : ForecastFailed(i) => chains[i].pc = "resolved"
  /\ (fetchPc = "chains" /\ AllResolved) => ENABLED PromiseAllResolved
  /\ (FetchOver /\ AllResolved) =>
       /\ loading = FALSE
       /\ \A i \in DOMAIN chains :
            ForecastFailed(i) =>
               /\ Shown(chains[i].name)
               /\ ShownItem(chains[i].name).carpark_info_available_lots
                     = Num(LiveEntry(chains[i].name).lots_available)
               /\ ShownItem(chains[i].name).carpark_info_total_lots
                     = Num(LiveEntry(chains[i].name).total_lots)
               /\ \A j \in DOMAIN chains :
                    chains[j].predictOutcome = "OK" =>
                       /\ Shown(chains[j].name)
                       /\ ShownItem(chains[j].name).prediction = ExpectedForecast(j)

\* one lot's forecast request failed, another lot's succeeded, both are listed
C7_Witness ==
  /\ fetchPc = "done"
  /\ AllResolved
  /\ \E i, j \in DOMAIN chains :
       /\ chains[i].predictOutcome = "error"
       /\ chains[j].predictOutcome = "OK"
       /\ Shown(chains[i].name)
       /\ DOMAIN ShownItem(chains[j].name).prediction = {"tenths"}

(***************************************************************************)
(* C8: under every interleaving of the per-lot callbacks, a listed lot's   *)
(* prediction is read from row 0 of the answer to the request for its own  *)
(* model name, and its driving time and distance come from the requests    *)
(* for its own location.                                                   *)
(***************************************************************************)
C8_OwnAnswers ==
  \A k \in DOMAIN parkings :
    LET item == parkings[k]
    IN /\ item.prediction \in
            {Undefined, Str("No predictions found")} \cup
            {[tenths |-> ForecastRow(item.name)[step]] : step \in 0..8}
       /\ item.drivingTime \in
            {Num(DurationValue(routeParams.currentLocation.location, item.name)),
             Str("cannot get the driving time")}
       /\ item.distanceToDestination \in {Null, DistanceText(item.name)}
       /\ \A i \in DOMAIN chains :
            (chains[i].name = item.name /\ chains[i].predictOutcome = "OK") =>
               item.prediction = ExpectedForecast(i)

\* two lots are listed, each with a forecast, a driving time and a distance
C8_Witness ==
  /\ Len(parkings) = 2
  /\ \A k \in DOMAIN parkings :
       /\ DOMAIN parkings[k].prediction = {"tenths"}
       /\ IsNum(parkings[k].drivingTime)
       /\ parkings[k].distanceToDestination # Null

(***************************************************************************)
(* C9: every lot of the displayed list has a name of the bundled list of   *)
(* public lots and a matching carpark_number entry with an update_datetime *)
(* in the live response; other nearby places are never displayed.          *)
(***************************************************************************)
C9_OnlyPublicLotsWithReading ==
  \A k \in DOMAIN parkings :
    /\ parkings[k].name \in {"A70", "TPMR", "B8"}
    /\ \E e \in Range(CarparkData) :
         /\ e.carpark_number = parkings[k].name
         /\ IsStr(e.update_datetime)
         /\ parkings[k].update_datetime = e.update_datetime

\* a lot is displayed while the search also returned a place that is not
C9_Witness ==
  /\ Len(parkings) > 0
  /\ \E name \in Range(nearbyResults) : ~Shown(name)

(***************************************************************************)
(* C10: the origin of the parking screen's drive-time request is the       *)
(* device's location whenever location permission was granted.             *)
(***************************************************************************)
Navigated == DOMAIN routeParams.currentLocation # {"undef"}

C10_OriginIsDeviceLocation ==
  (Navigated /\ permissionStatus = "granted") =>
     \A name \in NearbyPlaces : DriveTimeRequest(name).origins = deviceLocation


(***************************************************************************)
(* C11: a forecast computed when the repository holds fewer readings of    *)
(* the lot than the required window fails with InsufficientHistory and     *)
(* carries no forecast sequence; a forecast that succeeds was computed     *)
(* from a full window and has one value per step.                          *)
(***************************************************************************)
Finished(r) == requests[r].pc = "done"

C11_InsufficientHistoryFails ==
  \A r \in DOMAIN requests :
     Finished(r) =>
        /\ Len(requests[r].history) < RequiredWindow =>
              /\ requests[r].status = "InsufficientHistory"
              /\ requests[r].output = <<>>
        /\ requests[r].status = "OK" =>
              /\ Len(requests[r].history) >= RequiredWindow
              /\ DOMAIN requests[r].output = 0..HorizonSteps

\* a lot with some readings, but fewer than the window, was forecast
C11_Witness ==
  \E r \in DOMAIN requests :
     /\ Finished(r)
     /\ Len(requests[r].history) \in 1..(RequiredWindow - 1)
     /\ requests[r].status = "InsufficientHistory"

Answered == DOMAIN lastAvailability # {"none"}

C13_UnknownLotEmptySuccess ==
  (Answered /\ ~lastAvailability.known) =>
     /\ lastAvailability.status = 200
     /\ lastAvailability.body = <<>>

\* an unknown lot was asked for while the repository held other lots
C13_Witness ==
  /\ Answered
  /\ ~lastAvailability.known
  /\ lastAvailability.lot = "ZZ9"
  /\ catalog # {}
  /\ lastAvailability.status = 200

(***************************************************************************)
(* C14: whatever the ingestion job, the cleanup job and the queries did,   *)
(* every lot identifier get_availability has returned in a reading is in   *)
(* the set list_lots returns.                                              *)
(***************************************************************************)
C14_ListLotsSuperset == returnedIds \subseteq list_lots

\* a lot was returned in a reading and all its readings were deleted since
C14_Witness ==
  \E lot \in returnedIds : readings[lot] = <<>> /\ lot \in list_lots

(***************************************************************************)
(* C15: under every interleaving of the requests, a request that is past   *)
(* the cache holds the model and scaler of its own lot, the cache holds    *)
(* that lot's artifact under that lot, and a forecast that succeeded is    *)
(* the inference of its own lot's artifact: requests that race on the      *)
(* first access only load twice.                                           *)
(***************************************************************************)
PastCache(r) == requests[r].pc \in {"history", "done"}

C15_RaceOnlyDuplicatesLoad ==
  \A r \in DOMAIN requests :
     PastCache(r) =>
        LET lot == requests[r].lot
        IN /\ requests[r].artifact = ArtifactStore(lot)
           /\ lot \in DOMAIN modelCache
           /\ modelCache[lot] = ArtifactStore(lot)
           /\ \A key \in DOMAIN modelCache : modelCache[key] = ArtifactStore(key)
           /\ (Finished(r) /\ requests[r].status = "OK") =>
                 requests[r].output =
                    Inference(ArtifactStore(lot), LastWindow(requests[r].history))

\* two requests for one lot both missed the cache and both loaded the artifact
C15_Witness ==
  \E i, j \in DOMAIN requests :
     /\ i # j
     /\ requests[i].lot = requests[j].lot
     /\ requests[i].loaded /\ requests[j].loaded
     /\ Finished(i) /\ Finished(j)
     /\ requests[i].status = "OK" /\ requests[j].status = "OK"


(***************************************************************************)
(* C16: the nearby search issued by fetchWithRadius(r) asks for radius r:  *)
(* 1000 m at first, 1000 m more on every retry, up to 10000 m.             *)
(***************************************************************************)
C16_RequestUsesCurrentRadius ==
  (fetchPc = "nearby") => requestedRadius = currentRadius

(***************************************************************************)
(* C17: when every request is answered or fails, fetchParkingLots returns  *)
(* after at most 10 nearby searches (currentRadius 1000 to 10000), and on  *)
(* every path loading becomes false for good: it is never set to true      *)
(* again.                                                                  *)
(***************************************************************************)
Attempts == currentRadius \div RadiusStep

C17_FetchTerminates ==
  /\ [](Attempts * RadiusStep = currentRadius /\ currentRadius <= RadiusLimit)
  /\ <>[](fetchPc = "done" /\ loading = FALSE)
  /\ [][loading = FALSE => loading' = FALSE]_vars

\* the search was given up after the tenth attempt
C17_Witness ==
  /\ fetchPc = "done"
  /\ currentRadius = RadiusLimit
  /\ loading = FALSE
  /\ parkings = <<>>


(***************************************************************************)
(* C18: with sort option 'distance', sortParkings returns the lots in      *)
(* non-decreasing order of their distance to the destination, the lots     *)
(* without a usable distance after all the lots that have one.             *)
(***************************************************************************)
Sorted(option) == sortReturn # Undefined /\ sortChoice = Str(option)
HasDistance(item) == DOMAIN item.distanceToDestination = {"tenths", "unit"}
\* the distance a text stands for, in metres
Metres(item) ==
  IF item.distanceToDestination.unit = "km"
  THEN item.distanceToDestination.tenths * 100
  ELSE item.distanceToDestination.tenths \div 10

C18_DistanceAscending ==
  Sorted("distance") =>
     LET out == sortReturn.sortedData
     IN \A i, j \in DOMAIN out :
          (i < j /\ HasDistance(out[j])) =>
             /\ HasDistance(out[i])
             /\ Metres(out[i]) <= Metres(out[j])

(***************************************************************************)
(* C19: with sort option 'availableLots', sortParkings returns the lots in *)
(* non-increasing order of their live available-lots count.                *)
(***************************************************************************)
C19_AvailableLotsDescending ==
  Sorted("availableLots") =>
     LET out == sortReturn.sortedData
     IN \A i, j \in DOMAIN out :
          i < j => out[i].carpark_info_available_lots.num
                      >= out[j].carpark_info_available_lots.num

\* three lots that were handed over in increasing order of their counts
C19_Witness ==
  /\ Sorted("availableLots")
  /\ Len(sortData) >= 3
  /\ \A i \in 1..(Len(sortData) - 1) :
        sortData[i].carpark_info_available_lots.num
           < sortData[i + 1].carpark_info_available_lots.num
  /\ sortReturn.sortedData # sortData

(***************************************************************************)
(* C20: sortParkings leaves its argument as it was and returns a           *)
(* permutation of it: a change of the sort option never changes            *)
(* originalParkings, and the displayed list always holds exactly the lots  *)
(* of originalParkings, each once.                                         *)
(***************************************************************************)
IsPermutation(p, q) ==
  /\ Len(p) = Len(q)
  /\ \A x \in Range(p) \cup Range(q) :
        Cardinality({i \in DOMAIN p : p[i] = x}) = Cardinality({i \in DOMAIN q : q[i] = x})

SortStep == sortOption' # sortOption \/ (sortEffectPending /\ ~sortEffectPending')

C20_SortKeepsLots ==
  /\ [](IsPermutation(parkings, originalParkings))
  /\ [][SortStep => originalParkings' = originalParkings]_vars

\* the list is displayed in another order than originalParkings holds it
C20_Witness ==
  /\ Len(originalParkings) >= 2
  /\ ~sortEffectPending
  /\ sortOption = "availableLots"
  /\ parkings # originalParkings


(***************************************************************************)
(* C21: whenever loading has finished, the list is not empty and no sort   *)
(* effect is pending, the displayed list is in the order of the selected   *)
(* sort option: non-decreasing distance under 'distance', non-increasing   *)
(* available lots under 'availableLots'; also when a sort button was       *)
(* pressed while the fetch was in flight.                                  *)
(***************************************************************************)
InOrderOf(option, list) ==
  \A i, j \in DOMAIN list :
     i < j =>
        IF option = "distance"
        THEN HasDistance(list[j]) =>
                (HasDistance(list[i]) /\ Metres(list[i]) <= Metres(list[j]))
        ELSE list[i].carpark_info_available_lots.num
                >= list[j].carpark_info_available_lots.num

C21_ListFollowsSelectedOption ==
  (loading = FALSE /\ Len(parkings) > 0 /\ ~sortEffectPending) =>
     InOrderOf(sortOption, parkings)


(***************************************************************************)
(* C22: the pin colour of a Marker is the legend's colour of the count the *)
(* Marker shows: green above 10 lots, yellow from 5 to 10 lots, red below  *)
(* 5 lots.                                                                 *)
(***************************************************************************)
LegendColor(lots) ==
  IF lots > 10 THEN "green" ELSE IF lots >= 5 THEN "yellow" ELSE "red"

C22_MarkerMatchesLegend ==
  (markerColor # Undefined /\ IsNum(MarkerAvailable(markerParking).value)) =>
     markerColor = Str(LegendColor(MarkerAvailable(markerParking).value.num))


(***************************************************************************)
(* C23: a step of fetchWithRadius that throws (the nearby search, the live *)
(* carpark data, its JSON body, a rejected per-lot callback) leaves        *)
(* parkings = [] and originalParkings = [] with loading = false, and       *)
(* nothing fills the lists afterwards; a list that is displayed holds the  *)
(* merged lots of callbacks that have all returned.                        *)
(***************************************************************************)
ThrowStep ==
  \/ NearbyResponse("failed")
  \/ CarparkResponse("failed")
  \/ (earlyRefThrows /\ CarparkResponse("OK"))
  \/ JsonResponse("failed")
  \/ PromiseAllRejected

C23_ThrowEndsInErrorState ==
  /\ [][ThrowStep => (/\ parkings' = <<>>
                      /\ originalParkings' = <<>>
                      /\ loading' = FALSE
                      /\ FetchOver')]_vars
  /\ [][FetchOver => (/\ FetchOver'
                     /\ originalParkings' = originalParkings
                     /\ Range(parkings') = Range(parkings)
                     /\ loading' = loading)]_vars
  /\ [](Len(parkings) > 0 =>
          /\ \A i \in DOMAIN chains : chains[i].pc = "resolved"
          /\ Range(parkings) =
                {chains[i].result : i \in {k \in DOMAIN chains :
                                             HasUpdateDatetime(chains[k].result)}})

\* one lot was merged, another lot's callback rejected, and nothing is shown
C23_Witness ==
  /\ fetchPc = "done"
  /\ \E i, j \in DOMAIN chains :
       /\ chains[i].pc = "rejected"
       /\ chains[j].pc = "resolved"
       /\ HasUpdateDatetime(chains[j].result)
  /\ parkings = <<>>
  /\ originalParkings = <<>>
  /\ loading = FALSE


(***************************************************************************)
(* C24: a lot whose driving time could not be obtained never has its       *)
(* forecast step computed from anything but a numeric driving time (the    *)
(* index handed to data.predictions[0][...] is an integer), and never      *)
(* makes the other lots disappear: the lots whose callbacks returned are   *)
(* listed.                                                                 *)
(***************************************************************************)
DriveTimeFailed(i) ==
  \/ IsStr(chains[i].drivingTimeFromGoogle)
  \/ (chains[i].pc = "rejected" /\ chains[i].predictOutcome = "none")

C24_DriveTimeFailureHarmless ==
  /\ \A i \in DOMAIN chains :
        Evaluated(i) => (/\ IsNum(chains[i].drivingTimeFromGoogle)
                         /\ IsNum(chains[i].index))
  /\ FetchOver =>
        \A i, j \in DOMAIN chains :
           (/\ DriveTimeFailed(i)
            /\ chains[j].pc = "resolved"
            /\ HasUpdateDatetime(chains[j].result))
             => Shown(chains[j].name)


(***************************************************************************)
(* C25: when a text search succeeds, places becomes exactly the results    *)
(* whose formatted_address includes "Singapore", each once, in             *)
(* non-decreasing order of their haversine distance from singaporeLocation;*)
(* places never holds anything else.                                       *)
(***************************************************************************)
SingaporeIds(results) ==
  {results[i].place_id : i \in {k \in DOMAIN results :
                                  results[k].formatted_address.includesSingapore}}

NearestFirst(list) ==
  \A i, j \in DOMAIN list :
     i < j => haversine(singaporeLocation, list[i].location)
                 <= haversine(singaporeLocation, list[j].location)

EachOnce(list) == \A i, j \in DOMAIN list : list[i].place_id = list[j].place_id => i = j

====
